---- MODULE Spec2Model ----
(***************************************************************************)
(* shsu (bin/shsu.mjs): the command line front-end (main and the cmd*      *)
(* functions) and the MCP front-end (cmdMcp: the message loop and          *)
(* handleTool).  One behaviour is one process: main dispatches on argv,    *)
(* and every external command the process runs (rsync, ssh, curl) is one   *)
(* step whose outcome the environment chooses.  What the process reads of  *)
(* the local file system (existsSync, readdirSync) is chosen by the        *)
(* environment at the read.                                                *)
(***************************************************************************)
EXTENDS Integers, Sequences, FiniteSets, TLC

VARIABLES
  env,        \* process.env, the SHSU_* variables
  pkg,        \* the "shsu" key of package.json
  config,     \* const config = loadConfig()
  pc,         \* position of the process
  argv,       \* process.argv.slice(2)
  loc,        \* locals of the running operation
  cmds,       \* external commands run by the current operation, with outcome
  writes,     \* local file system writes of the current operation
  console,    \* success/error/listing lines written by the CLI
  exitCode,   \* process exit code; Running while the process lives
  stdin,      \* lines written to the responder's stdin and not read yet
  stdinOpen,  \* the client has not closed stdin
  nSent,      \* lines the client has written so far
  req,        \* the message the loop is processing
  stdout,     \* response lines written by the responder: id and channel
  result,     \* payload of the response line written for the current message
  asked       \* ids of the requests read that carry an id and a supported method

vars == <<env, pkg, config, pc, argv, loc, cmds, writes, console, exitCode,
          stdin, stdinOpen, nSent, req, stdout, result, asked>>

mcpVars == <<stdin, stdinOpen, nSent, req, stdout, result, asked>>

----------------------------------------------------------------------------
\* Bounds of the model.

MaxFiles == 2      \* entries of the migrations directory
MaxLines == 2      \* lines a client writes to the responder

----------------------------------------------------------------------------
\* JavaScript values.

Unset == ""                 \* undefined (and the empty string): falsy
Null == "<null>"            \* null: falsy
Truthy(v) == v # Unset /\ v # Null
Or(a, b) == IF Truthy(a) THEN a ELSE b      \* a || b
Running == 0 - 1

Range(s) == {s[k] : k \in 1..Len(s)}

----------------------------------------------------------------------------
\* Configuration: package.json + environment variables.

Fields == {"server", "remotePath", "localPath", "migrationsPath", "url",
           "edgeContainer", "dbContainer"}

NoSettings == [f \in Fields |-> Unset]

DefaultLocalPath == "./supabase/functions"
DefaultMigrationsPath == "./supabase/migrations"
DefaultEdgeContainer == "edge"
DefaultDbContainer == "postgres"

\* Mutant of loadConfig: package.json wins over the environment.
loadConfigPkgFirst(e, p) ==
  [server         |-> Or(p.server, e.server),
   remotePath     |-> Or(p.remotePath, e.remotePath),
   localPath      |-> Or(Or(p.localPath, e.localPath), DefaultLocalPath),
   migrationsPath |-> Or(Or(p.migrationsPath, e.migrationsPath), DefaultMigrationsPath),
   url            |-> Or(p.url, e.url),
   edgeContainer  |-> Or(Or(p.edgeContainer, e.edgeContainer), DefaultEdgeContainer),
   dbContainer    |-> Or(Or(p.dbContainer, e.dbContainer), DefaultDbContainer)]

loadConfig(e, p) ==
  [server         |-> Or(e.server, p.server),
   remotePath     |-> Or(e.remotePath, p.remotePath),
   localPath      |-> Or(Or(e.localPath, p.localPath), DefaultLocalPath),
   migrationsPath |-> Or(Or(e.migrationsPath, p.migrationsPath), DefaultMigrationsPath),
   url            |-> Or(e.url, p.url),
   edgeContainer  |-> Or(Or(e.edgeContainer, p.edgeContainer), DefaultEdgeContainer),
   dbContainer    |-> Or(Or(e.dbContainer, p.dbContainer), DefaultDbContainer)]

\* The settings the model starts from.
PkgInputs ==
  {[NoSettings EXCEPT !.server = s, !.remotePath = r, !.url = u] :
      s \in {Unset, "root@host"}, r \in {Unset, "/data/functions"},
      u \in {Unset, "https://sb.example.com"}}

EnvInputs ==
  {NoSettings, [NoSettings EXCEPT !.dbContainer = "supabase-db"]}

----------------------------------------------------------------------------
\* Console messages of the CLI: success(msg), error(msg), console.log(listing).

Msg(level, text, arg) == [level |-> level, text |-> text, arg |-> arg]

toUpperCase(name) ==
  CASE name = "server" -> "SERVER"
    [] name = "remotePath" -> "REMOTEPATH"
    [] name = "url" -> "URL"
    [] OTHER -> name

\* error(msg): console.error, then process.exit(1).
error(text, arg) ==
  /\ console' = Append(console, Msg("error", text, arg))
  /\ exitCode' = 1
  /\ pc' = "exit"

\* The function returned normally to main: the process ends with code 0.
Return(lines) ==
  /\ console' = console \o lines
  /\ exitCode' = 0
  /\ pc' = "exit"

MissingVar(name) == error("Missing required env var: SHSU_", toUpperCase(name))

\* requireVar(name) passes.
HasVar(name) == Truthy(config[name])

\* Mutant of requireServer: url is required as well.
requireServerAndUrl ==
  IF ~HasVar("server") THEN "server"
  ELSE IF ~HasVar("remotePath") THEN "remotePath"
  ELSE IF ~HasVar("url") THEN "url"
  ELSE Unset

\* The first field requireServer() finds missing, Unset when none is.
requireServer ==
  IF ~HasVar("server") THEN "server"
  ELSE IF ~HasVar("remotePath") THEN "remotePath"
  ELSE Unset

----------------------------------------------------------------------------
\* External commands.  Paths and command lines are kept as the tuple of the
\* pieces the template literal joins.

Cmd(prog, verb, delete, src, dest, arg) ==
  [prog |-> prog, verb |-> verb, delete |-> delete, src |-> src, dest |-> dest,
   arg |-> arg]

\* rsync -avz --delete --exclude=*.test.ts --exclude=*.spec.ts localPath/ server:remotePath/
RsyncAll ==
  Cmd("rsync", "sync", TRUE, <<config.localPath, "/">>,
      <<config.server, ":", config.remotePath, "/">>, Unset)

\* Mutant of RsyncUnit: the flags of the full deploy, --delete among them.
RsyncUnitMirror(funcName) ==
  Cmd("rsync", "sync", TRUE, <<config.localPath, "/", funcName, "/">>,
      <<config.server, ":", config.remotePath, "/", funcName, "/">>, funcName)

\* rsync -avz funcPath/ server:remotePath/funcName/
RsyncUnit(funcName) ==
  Cmd("rsync", "sync", FALSE, <<config.localPath, "/", funcName, "/">>,
      <<config.server, ":", config.remotePath, "/", funcName, "/">>, funcName)

\* ssh server "docker restart $(docker ps -q --filter 'name=edgeContainer')"
SshRestart ==
  Cmd("ssh", "restart", FALSE, <<>>, <<config.server>>, config.edgeContainer)

\* ssh server "docker logs -f $(docker ps -q --filter 'name=edgeContainer') --tail n 2>&1"
SshLogs ==
  Cmd("ssh", "logs", FALSE, <<>>, <<config.server>>, config.edgeContainer)

\* ssh server "ls -1 remotePath 2>/dev/null"
SshLs ==
  Cmd("ssh", "ls", FALSE, <<>>, <<config.server>>, config.remotePath)

\* rsync -avz --delete migrationsPath/ server:/tmp/shsu-migrations/
remoteMigrationsPath == "/tmp/shsu-migrations"
RsyncMigrations ==
  Cmd("rsync", "stage", TRUE, <<config.migrationsPath, "/">>,
      <<config.server, ":", remoteMigrationsPath, "/">>, Unset)

\* ssh server "docker ps -q --filter 'name=dbContainer'"
SshFindDb ==
  Cmd("ssh", "lookup", FALSE, <<>>, <<config.server>>, config.dbContainer)

\* ssh server "docker exec -i <container> psql -U postgres -d postgres -f /tmp/shsu-migrations/<migration>"
SshPsql(container, migration) ==
  Cmd("ssh", "psql", FALSE, <<remoteMigrationsPath, "/", migration>>,
      <<config.server, container>>, migration)

\* curl -s -X POST url/functions/v1/funcName -H "Content-Type: application/json" -d data
CurlPost(funcName, data) ==
  Cmd("curl", "post", FALSE, data,
      <<config.url, "/functions/v1/", funcName>>, funcName)

\* What the environment may answer: the exit code and the trimmed stdout.
ContainerId == "c0ffee"
Outcomes(verb) ==
  CASE verb \in {"sync", "stage"} ->
         {[exit |-> 0, out |-> "sent 1 file"], [exit |-> 23, out |-> Unset]}
    [] verb = "restart" ->
         {[exit |-> 0, out |-> ContainerId], [exit |-> 1, out |-> Unset]}
    [] verb = "lookup" ->
         {[exit |-> 0, out |-> ContainerId], [exit |-> 0, out |-> Unset],
          [exit |-> 255, out |-> Unset]}
    [] verb = "psql" ->
         {[exit |-> 0, out |-> "CREATE TABLE"], [exit |-> 1, out |-> Unset]}
    [] verb = "ls" ->
         {[exit |-> 0, out |-> "hello\nworld"], [exit |-> 0, out |-> Unset],
          [exit |-> 255, out |-> Unset]}
    [] verb = "logs" ->
         {[exit |-> 0, out |-> Unset], [exit |-> 255, out |-> Unset]}
    [] verb = "post" ->
         {[exit |-> 0, out |-> "{\"message\":\"Hello\"}"], [exit |-> 7, out |-> Unset]}

\* One entry of cmds: the command and how it ended.
Ran(cmd, o) == [cmd |-> cmd, exit |-> o.exit, out |-> o.out]

\* runSync(cmd): the trimmed stdout, null when the command fails.
runSync(o) == IF o.exit = 0 THEN o.out ELSE Null

\* captureExec(cmd): the trimmed stdout, e.message when the command fails.
FailText == "Command failed: "
captureExec(o) == IF o.exit = 0 THEN o.out ELSE FailText

----------------------------------------------------------------------------
\* Locals of an operation.

Loc0 ==
  [op |-> "none", funcName |-> Unset, noRestart |-> FALSE, pathKind |-> "unread",
   entries |-> {}, migrations |-> <<>>, dbContainer |-> Unset, i |-> 0,
   output |-> <<>>]

PathKinds == {"absent", "file", "dir"}
existsSync(kind) == kind # "absent"

----------------------------------------------------------------------------
\* Migration file names, as tuples of characters.

Code(c) ==
  CASE c = "." -> 46 [] c = "0" -> 48 [] c = "1" -> 49 [] c = "2" -> 50
    [] c = "l" -> 108 [] c = "q" -> 113 [] c = "s" -> 115

FileNames ==
  { <<"1", ".", "s", "q", "l">>,          \* 1.sql
    <<"1", "0", ".", "s", "q", "l">>,     \* 10.sql
    <<"2", ".", "s", "q", "l">>,          \* 2.sql
    <<"s", "q", "l">> }                   \* sql

\* What readdirSync may return: the entries of a directory, in any order.
Listings ==
  {s \in UNION {[1..n -> FileNames] : n \in 0..MaxFiles} :
      \A j, k \in 1..Len(s) : j # k => s[j] # s[k]}

\* String.prototype.endsWith
endsWith(f, suffix) ==
  /\ Len(f) >= Len(suffix)
  /\ SubSeq(f, Len(f) - Len(suffix) + 1, Len(f)) = suffix

SqlSuffix == <<".", "s", "q", "l">>

\* Mutant of filter: every entry of the folder is kept.
filterKeepsAll(s) == s

RECURSIVE filter(_)
\* .filter((f) => f.endsWith('.sql'))
filter(s) ==
  IF s = <<>> THEN <<>>
  ELSE IF endsWith(Head(s), SqlSuffix) THEN <<Head(s)>> \o filter(Tail(s))
  ELSE filter(Tail(s))

\* The order of Array.prototype.sort without a comparator: by UTF-16 code units.
RECURSIVE LexLess(_, _)
LexLess(a, b) ==
  IF b = <<>> THEN FALSE
  ELSE IF a = <<>> THEN TRUE
  ELSE IF Code(Head(a)) # Code(Head(b)) THEN Code(Head(a)) < Code(Head(b))
  ELSE LexLess(Tail(a), Tail(b))

RECURSIVE Insert(_, _)
Insert(x, s) ==
  IF s = <<>> THEN <<x>>
  ELSE IF LexLess(x, Head(s)) THEN <<x>> \o s
  ELSE <<Head(s)>> \o Insert(x, Tail(s))

\* Mutant of sort: the list is left in the order readdirSync returned it.
sortOmitted(s) == s

RECURSIVE sort(_)
\* .sort()
sort(s) == IF s = <<>> THEN <<>> ELSE Insert(Head(s), sort(Tail(s)))

\* readdirSync(config.migrationsPath).filter(...).sort()
MigrationsOf(listing) == sort(filter(listing))

----------------------------------------------------------------------------
\* main: const cmd = args[0] || 'help', and the switch on it.

Arg(k) == IF k <= Len(argv) THEN argv[k] ELSE Unset

Command ==
  LET cmd == Or(Arg(1), "help") IN
  CASE cmd = "deploy" -> "deploy"
    [] cmd \in {"logs", "log"} -> "logs"
    [] cmd \in {"list", "ls"} -> "list"
    [] cmd \in {"invoke", "call"} -> "invoke"
    [] cmd = "restart" -> "restart"
    [] cmd \in {"migrate", "migration", "migrations"} -> "migrate"
    [] cmd \in {"new", "create"} -> "new"
    [] cmd = "mcp" -> "mcp"
    [] cmd \in {"env", "config"} -> "env"
    [] cmd \in {"help", "-h", "--help"} -> "help"
    [] OTHER -> "unknown"

ArgvInputs ==
  { <<"deploy">>, <<"deploy", "hello">>, <<"deploy", "--no-restart">>,
    <<"deploy", "hello", "--no-restart">>, <<"deploy", "--no-restart", "hello">>,
    <<"logs">>, <<"log", "hello">>, <<"list">>, <<"ls">>,
    <<"invoke">>, <<"invoke", "hello">>, <<"call", "hello", "{\"name\":\"Stefan\"}">>,
    <<"restart">>, <<"migrate">>, <<"migrations">>,
    <<"new">>, <<"create", "hello">>, <<"env">>, <<>>, <<"--help">>,
    <<"frobnicate">>, <<"mcp">> }

\* run(cmd, args) rejects: the close event carries a code other than 0.
Rejects(o) == o.exit # 0

\* The catch of main: error(e.message) for Error(`Command failed with code ${code}`).
CommandFailed(o) == error("Command failed with code ", o.exit)

----------------------------------------------------------------------------
\* cmdDeploy

\* main, case 'deploy': the flag may come before or after the name.
DeployNoRestart == "--no-restart" \in Range(argv)
DeployFuncName == IF Arg(2) = "--no-restart" THEN Arg(3) ELSE Arg(2)

\* The rsync of a deploy: the whole tree, or one function.
DeployRsync(funcName) ==
  IF ~Truthy(funcName) THEN RsyncAll ELSE RsyncUnit(funcName)

\* Mutant of RestartAfterSync: the flag is ignored.
RestartAlways(noRestart) == TRUE

\* if (!noRestart): the restart follows the sync.
RestartAfterSync(noRestart) == ~noRestart

\* cmdDeploy up to its first await.
CliDeploy ==
  /\ pc = "main" /\ Command = "deploy"
  /\ UNCHANGED <<env, pkg, config, argv, cmds, writes, mcpVars>>
  /\ IF requireServer # Unset
       THEN MissingVar(requireServer) /\ UNCHANGED loc
     ELSE IF ~Truthy(DeployFuncName)
       THEN /\ loc' = [Loc0 EXCEPT !.op = "deploy", !.noRestart = DeployNoRestart]
            /\ pc' = "deploy_sync"
            /\ UNCHANGED <<console, exitCode>>
     ELSE \E kind \in PathKinds :
            /\ loc' = [Loc0 EXCEPT !.op = "deploy", !.funcName = DeployFuncName,
                                   !.noRestart = DeployNoRestart, !.pathKind = kind]
            /\ IF ~existsSync(kind)
                 THEN error("Function not found: ", DeployFuncName)
                 ELSE pc' = "deploy_sync" /\ UNCHANGED <<console, exitCode>>

\* await run('rsync', ...), then the branch on noRestart.
CliDeploySync ==
  /\ pc = "deploy_sync"
  /\ UNCHANGED <<env, pkg, config, argv, loc, writes, mcpVars>>
  /\ \E o \in Outcomes("sync") :
       /\ cmds' = Append(cmds, Ran(DeployRsync(loc.funcName), o))
       /\ IF Rejects(o) THEN CommandFailed(o)
          ELSE IF RestartAfterSync(loc.noRestart)
            THEN pc' = "deploy_restart" /\ UNCHANGED <<console, exitCode>>
          ELSE Return(<<Msg("success", "Synced (no restart)", loc.funcName)>>)

\* await run('ssh', [server, 'docker restart ...']), then success('Deployed').
CliDeployRestart ==
  /\ pc = "deploy_restart"
  /\ UNCHANGED <<env, pkg, config, argv, loc, writes, mcpVars>>
  /\ \E o \in Outcomes("restart") :
       /\ cmds' = Append(cmds, Ran(SshRestart, o))
       /\ IF Rejects(o) THEN CommandFailed(o)
          ELSE Return(<<Msg("success", "Deployed", loc.funcName)>>)

----------------------------------------------------------------------------
\* cmdLogs

CliLogs ==
  /\ pc = "main" /\ Command = "logs"
  /\ UNCHANGED <<env, pkg, config, argv, cmds, writes, mcpVars>>
  /\ IF requireServer # Unset
       THEN MissingVar(requireServer) /\ UNCHANGED loc
       ELSE /\ loc' = [Loc0 EXCEPT !.op = "logs", !.funcName = Arg(2)]
            /\ pc' = "logs_stream"
            /\ UNCHANGED <<console, exitCode>>

\* With a filter: ssh piped into grep, resolved by either close event, whatever
\* the code.  Without: await run('ssh', sshArgs).
CliLogsStream ==
  /\ pc = "logs_stream"
  /\ UNCHANGED <<env, pkg, config, argv, loc, writes, mcpVars>>
  /\ \E o \in Outcomes("logs") :
       /\ cmds' = Append(cmds, Ran(SshLogs, o))
       /\ IF Truthy(loc.funcName) THEN Return(<<>>)
          ELSE IF Rejects(o) THEN CommandFailed(o)
          ELSE Return(<<>>)

----------------------------------------------------------------------------
\* cmdList

\* Entries of localPath: readdirSync(localPath, { withFileTypes: true }).
LocalEntries ==
  {[name |-> "hello", isDirectory |-> TRUE], [name |-> "deno.json", isDirectory |-> FALSE]}

\* remote.split('\n').filter(Boolean)
SplitLines(s) ==
  CASE s = "hello\nworld" -> <<"hello", "world">>
    [] s = Unset -> <<>>
    [] OTHER -> <<s>>

\* Mutant of DirNames: the entries are not filtered.
DirNamesUnfiltered(entries) == {d.name : d \in entries}

\* .filter((d) => d.isDirectory()).map((d) => d.name)
DirNames(entries) == {d.name : d \in {e \in entries : e.isDirectory}}

CliList ==
  /\ pc = "main" /\ Command = "list"
  /\ UNCHANGED <<env, pkg, config, argv, cmds, writes, mcpVars>>
  /\ IF requireServer # Unset
       THEN MissingVar(requireServer) /\ UNCHANGED loc
       ELSE /\ loc' = [Loc0 EXCEPT !.op = "list"]
            /\ pc' = "list_remote"
            /\ UNCHANGED <<console, exitCode>>

\* runSync('ssh server "ls -1 remotePath"'), then the local listing.
CliListRemote ==
  /\ pc = "list_remote"
  /\ UNCHANGED <<env, pkg, config, argv, writes, mcpVars>>
  /\ \E o \in Outcomes("ls"), kind \in PathKinds, entries \in SUBSET LocalEntries :
       LET remote == runSync(o)
           remoteLines == IF Truthy(remote)
                            THEN <<Msg("log", "remote", SplitLines(remote))>> ELSE <<>>
       IN
       /\ kind # "dir" => entries = {}
       /\ cmds' = Append(cmds, Ran(SshLs, o))
       /\ loc' = [loc EXCEPT !.pathKind = kind, !.entries = entries]
       /\ CASE kind = "absent" -> Return(remoteLines)
            [] kind = "file" ->
                 \* readdirSync throws ENOTDIR; main catches it
                 /\ console' = (console \o remoteLines)
                                 \o <<Msg("error", "ENOTDIR: not a directory, scandir ", config.localPath)>>
                 /\ exitCode' = 1
                 /\ pc' = "exit"
            [] kind = "dir" ->
                 Return(remoteLines \o <<Msg("log", "local", DirNames(entries))>>)

----------------------------------------------------------------------------
\* cmdInvoke

CliInvoke ==
  /\ pc = "main" /\ Command = "invoke"
  /\ UNCHANGED <<env, pkg, config, argv, cmds, writes, mcpVars>>
  /\ IF ~HasVar("url")
       THEN MissingVar("url") /\ UNCHANGED loc
     ELSE IF ~Truthy(Arg(2))
       THEN error("Usage: shsu invoke <function-name> [json-data]", Unset) /\ UNCHANGED loc
     ELSE /\ loc' = [Loc0 EXCEPT !.op = "invoke", !.funcName = Arg(2)]
          /\ pc' = "invoke_post"
          /\ UNCHANGED <<console, exitCode>>

\* await run('curl', ...); data = '{}' when args[2] is undefined.
CliInvokePost ==
  /\ pc = "invoke_post"
  /\ UNCHANGED <<env, pkg, config, argv, loc, writes, mcpVars>>
  /\ \E o \in Outcomes("post") :
       /\ cmds' = Append(cmds, Ran(CurlPost(loc.funcName,
                                            IF Arg(3) = Unset THEN <<"{}">> ELSE <<Arg(3)>>), o))
       /\ IF Rejects(o) THEN CommandFailed(o) ELSE Return(<<>>)

----------------------------------------------------------------------------
\* cmdRestart

CliRestart ==
  /\ pc = "main" /\ Command = "restart"
  /\ UNCHANGED <<env, pkg, config, argv, cmds, writes, mcpVars>>
  /\ IF requireServer # Unset
       THEN MissingVar(requireServer) /\ UNCHANGED loc
       ELSE /\ loc' = [Loc0 EXCEPT !.op = "restart"]
            /\ pc' = "restart_run"
            /\ UNCHANGED <<console, exitCode>>

CliRestartRun ==
  /\ pc = "restart_run"
  /\ UNCHANGED <<env, pkg, config, argv, loc, writes, mcpVars>>
  /\ \E o \in Outcomes("restart") :
       /\ cmds' = Append(cmds, Ran(SshRestart, o))
       /\ IF Rejects(o) THEN CommandFailed(o)
          ELSE Return(<<Msg("success", "Restarted", Unset)>>)

----------------------------------------------------------------------------
\* cmdMigrate

\* cmdMigrate up to its first await: the folder check and the list of files.
CliMigrate ==
  /\ pc = "main" /\ Command = "migrate"
  /\ UNCHANGED <<env, pkg, config, argv, cmds, writes, mcpVars>>
  /\ IF requireServer # Unset
       THEN MissingVar(requireServer) /\ UNCHANGED loc
     ELSE \E kind \in PathKinds, listing \in Listings :
       LET migrations == MigrationsOf(listing) IN
       /\ kind # "dir" => listing = <<>>
       /\ loc' = [Loc0 EXCEPT !.op = "migrate", !.pathKind = kind,
                              !.entries = Range(listing), !.migrations = migrations,
                              !.i = 1]
       /\ CASE kind = "absent" ->
                 error("Migrations folder not found: ", config.migrationsPath)
            [] kind = "file" ->
                 \* readdirSync throws ENOTDIR; main catches it
                 error("ENOTDIR: not a directory, scandir ", config.migrationsPath)
            [] kind = "dir" ->
                 IF Len(migrations) = 0
                   THEN Return(<<>>)
                   ELSE pc' = "migrate_stage" /\ UNCHANGED <<console, exitCode>>

\* await run('rsync', ['-avz', '--delete', migrationsPath/, server:/tmp/shsu-migrations/])
CliMigrateStage ==
  /\ pc = "migrate_stage"
  /\ UNCHANGED <<env, pkg, config, argv, loc, writes, mcpVars>>
  /\ \E o \in Outcomes("stage") :
       /\ cmds' = Append(cmds, Ran(RsyncMigrations, o))
       /\ IF Rejects(o) THEN CommandFailed(o)
          ELSE pc' = "migrate_lookup" /\ UNCHANGED <<console, exitCode>>

\* Mutant of CliMigrateLookup: the result of the lookup is not checked.
CliMigrateLookupUnchecked ==
  /\ pc = "migrate_lookup"
  /\ UNCHANGED <<env, pkg, config, argv, writes, mcpVars>>
  /\ \E o \in Outcomes("lookup") :
       /\ cmds' = Append(cmds, Ran(SshFindDb, o))
       /\ loc' = [loc EXCEPT !.dbContainer = runSync(o)]
       /\ pc' = "migrate_run" /\ UNCHANGED <<console, exitCode>>

\* const dbContainer = runSync(...); if (!dbContainer) error(...)
CliMigrateLookup ==
  /\ pc = "migrate_lookup"
  /\ UNCHANGED <<env, pkg, config, argv, writes, mcpVars>>
  /\ \E o \in Outcomes("lookup") :
       /\ cmds' = Append(cmds, Ran(SshFindDb, o))
       /\ loc' = [loc EXCEPT !.dbContainer = runSync(o)]
       /\ IF ~Truthy(runSync(o))
            THEN error("Database container not found (filter: )", config.dbContainer)
            ELSE pc' = "migrate_run" /\ UNCHANGED <<console, exitCode>>

\* Mutant of CliMigrateRun: the catch reports the failure and the loop goes on.
CliMigrateRunGoesOn ==
  /\ pc = "migrate_run"
  /\ UNCHANGED <<env, pkg, config, argv, writes, mcpVars>>
  /\ \E o \in Outcomes("psql") :
       LET migration == loc.migrations[loc.i]
           line == IF Rejects(o) THEN Msg("error", "Failed to apply ", migration)
                   ELSE Msg("success", "Applied ", migration)
       IN
       /\ cmds' = Append(cmds, Ran(SshPsql(loc.dbContainer, migration), o))
       /\ loc' = [loc EXCEPT !.i = loc.i + 1]
       /\ IF loc.i < Len(loc.migrations)
            THEN console' = Append(console, line) /\ UNCHANGED <<pc, exitCode>>
            ELSE Return(<<line, Msg("success", "All migrations applied", Unset)>>)

\* One turn of the for loop: try { await run('ssh', ...psql...) } catch { error(...) },
\* and success('All migrations applied') after the last turn.
CliMigrateRun ==
  /\ pc = "migrate_run"
  /\ UNCHANGED <<env, pkg, config, argv, writes, mcpVars>>
  /\ \E o \in Outcomes("psql") :
       LET migration == loc.migrations[loc.i] IN
       /\ cmds' = Append(cmds, Ran(SshPsql(loc.dbContainer, migration), o))
       /\ IF Rejects(o)
            THEN error("Failed to apply ", migration) /\ UNCHANGED loc
          ELSE IF loc.i < Len(loc.migrations)
            THEN /\ console' = Append(console, Msg("success", "Applied ", migration))
                 /\ loc' = [loc EXCEPT !.i = loc.i + 1]
                 /\ UNCHANGED <<pc, exitCode>>
          ELSE /\ Return(<<Msg("success", "Applied ", migration),
                           Msg("success", "All migrations applied", Unset)>>)
               /\ loc' = [loc EXCEPT !.i = loc.i + 1]

----------------------------------------------------------------------------
\* cmdNew

Write(call, path) == [call |-> call, path |-> path]

\* mkdirSync(funcPath, { recursive: true }); writeFileSync(join(funcPath, 'index.ts'), ...)
Scaffold(funcName) ==
  <<Write("mkdirSync", <<config.localPath, "/", funcName>>),
    Write("writeFileSync", <<config.localPath, "/", funcName, "/", "index.ts">>)>>

CliNew ==
  /\ pc = "main" /\ Command = "new"
  /\ UNCHANGED <<env, pkg, config, argv, cmds, mcpVars>>
  /\ IF ~Truthy(Arg(2))
       THEN error("Usage: shsu new <function-name>", Unset) /\ UNCHANGED <<loc, writes>>
     ELSE \E kind \in PathKinds :
       /\ loc' = [Loc0 EXCEPT !.op = "new", !.funcName = Arg(2), !.pathKind = kind]
       /\ IF existsSync(kind)
            THEN error("Function already exists: ", Arg(2)) /\ UNCHANGED writes
            ELSE /\ writes' = writes \o Scaffold(Arg(2))
                 /\ Return(<<Msg("success", "Created ", Arg(2))>>)

----------------------------------------------------------------------------
\* cmdEnv, cmdHelp, and the default of main's switch

CliEnv ==
  /\ pc = "main" /\ Command = "env"
  /\ UNCHANGED <<env, pkg, config, argv, loc, cmds, writes, mcpVars>>
  /\ Return(<<Msg("log", "Current values", config)>>)

CliHelp ==
  /\ pc = "main" /\ Command = "help"
  /\ UNCHANGED <<env, pkg, config, argv, loc, cmds, writes, mcpVars>>
  /\ Return(<<>>)

CliUnknown ==
  /\ pc = "main" /\ Command = "unknown"
  /\ UNCHANGED <<env, pkg, config, argv, loc, cmds, writes, mcpVars>>
  /\ error("Unknown command: ", Arg(1))

----------------------------------------------------------------------------
\* cmdMcp: the lines a client may write.

NoId == <<>>                       \* the message has no id member
\* A text given as data is a sequence of pieces; an apostrophe is a piece of its own.
NoData == <<>>
Payloads ==
  {<<"{\"name\":\"Stefan\"}">>, <<"{\"name\":\"O", "'", "Brien\"}">>,
   <<"{\"q\":\"", "'", "x", "'", "\"}">>}
NoArgs == [name |-> Unset, noRestart |-> FALSE, data |-> NoData]
NoParams == [present |-> FALSE, name |-> Unset, arguments |-> NoArgs]
Call(name, args) == [present |-> TRUE, name |-> name, arguments |-> args]

Line(json, id, method, params) ==
  [json |-> json, id |-> id, method |-> method, params |-> params]

NoReq == Line("none", NoId, Unset, NoParams)

\* Mutant of ToolNames: handleTool has no case 'docs'.
ToolNamesWithoutDocs == {"deploy", "list", "invoke", "restart", "new", "config", "migrate"}

\* The case labels of handleTool's switch.
ToolNames == {"deploy", "list", "invoke", "restart", "new", "config", "migrate", "docs"}

Calls ==
  {NoParams}
    \cup {Call(t, NoArgs) : t \in {"list", "restart", "config", "migrate", "docs", "frobnicate"}}
    \cup {Call("deploy", [NoArgs EXCEPT !.name = n, !.noRestart = r]) :
            n \in {Unset, "hello"}, r \in BOOLEAN}
    \cup {Call(t, [NoArgs EXCEPT !.name = n]) : t \in {"invoke", "new"}, n \in {Unset, "hello"}}
    \cup {Call("invoke", [NoArgs EXCEPT !.name = "hello", !.data = d]) : d \in Payloads}

\* The lines a client may write as its line number k: the id, when there is one, is k.
Lines(k) ==
  {Line(j, NoId, Unset, NoParams) : j \in {"invalid", "null", "scalar"}}
    \cup {Line("object", id, m, NoParams) :
            id \in {NoId, <<k>>},
            m \in {"initialize", "notifications/initialized", "tools/list", "ping", Unset}}
    \cup {Line("object", id, "tools/call", c) : id \in {NoId, <<k>>}, c \in Calls}

Supported == {"initialize", "tools/list", "tools/call"}

\* { content: [{ type: 'text', text }] } and its isError member
Result(text, isError) == [text |-> text, isError |-> isError]
NoResult == Result(<<>>, FALSE)

\* respond(id, result): one line { jsonrpc, id, result }
respond(id, res) ==
  /\ stdout' = Append(stdout, [id |-> id, chan |-> "result"])
  /\ result' = res

\* respondError(id, code, message): one line { jsonrpc, id, error: { code, message } }
MethodNotFound == -32601
respondError(id, code, message) ==
  /\ stdout' = Append(stdout, [id |-> id, chan |-> "error"])
  /\ result' = [code |-> code, message |-> message]

\* The client writes its next line and the loop takes it.  The responder looks at
\* stdin only between two messages, so the write and the read are one step.
AtRead == pc = "mcp_read" /\ stdinOpen /\ nSent < MaxLines

Taking(line, json, method) == line.json = json /\ line.method = method

Taken(line) ==
  /\ nSent' = nSent + 1
  /\ req' = line
  /\ asked' = IF line.id # NoId /\ line.method \in Supported
                THEN Append(asked, line.id) ELSE asked
  /\ UNCHANGED <<env, pkg, config, argv, stdin, stdinOpen>>

TakingCall(line, name) ==
  /\ Taking(line, "object", "tools/call")
  /\ line.params.present
  /\ line.params.name = name

\* The handler returned: respond(id, result), and the loop reads on.
Responds(res) ==
  /\ respond(req.id, res)
  /\ pc' = "mcp_read"
  /\ UNCHANGED <<env, pkg, config, argv, console, exitCode, stdin, stdinOpen, nSent,
                 req, asked>>

\* handleTool returned before any command ran.
RespondsAtOnce(line, res) ==
  /\ respond(line.id, res)
  /\ UNCHANGED <<pc, console, exitCode>>

\* handleTool goes on to its first command.
GoesOn(to) ==
  /\ pc' = to
  /\ result' = NoResult
  /\ UNCHANGED <<console, exitCode, stdout>>

----------------------------------------------------------------------------
\* main, case 'mcp', and the client of the responder.

CliMcp ==
  /\ pc = "main" /\ Command = "mcp"
  /\ pc' = "mcp_read"
  /\ UNCHANGED <<env, pkg, config, argv, loc, cmds, writes, console, exitCode, mcpVars>>

\* The client writes a line after the responder has exited: nothing reads it.
ClientSend ==
  /\ Command = "mcp" /\ pc = "exit"
  /\ stdinOpen /\ nSent < MaxLines
  /\ \E line \in Lines(nSent + 1) : stdin' = Append(stdin, line)
  /\ nSent' = nSent + 1
  /\ UNCHANGED <<env, pkg, config, pc, argv, loc, cmds, writes, console, exitCode,
                 stdinOpen, req, stdout, result, asked>>

ClientClose ==
  /\ Command = "mcp" /\ pc = "mcp_read"
  /\ stdinOpen /\ stdin = <<>>
  /\ stdinOpen' = FALSE
  /\ UNCHANGED <<env, pkg, config, pc, argv, loc, cmds, writes, console, exitCode,
                 stdin, nSent, req, stdout, result, asked>>

\* End of input: the for await loop ends and cmdMcp returns to main.
McpEof ==
  /\ pc = "mcp_read" /\ stdin = <<>> /\ ~stdinOpen
  /\ pc' = "exit" /\ exitCode' = 0
  /\ UNCHANGED <<env, pkg, config, argv, loc, cmds, writes, console, mcpVars>>

----------------------------------------------------------------------------
\* The message loop, one line at a time.

NoOperation == loc' = Loc0 /\ cmds' = <<>> /\ writes' = <<>>

\* JSON.parse throws: continue.
McpInvalid ==
  AtRead /\ \E line \in Lines(nSent + 1) :
    /\ Taking(line, "invalid", Unset) /\ Taken(line) /\ NoOperation
    /\ result' = NoResult
    /\ UNCHANGED <<pc, console, exitCode, stdout>>

\* JSON.parse returns null: const { id, method, params } = msg throws a TypeError
\* outside the try; it leaves cmdMcp and the catch of main calls error(e.message).
McpNull ==
  AtRead /\ \E line \in Lines(nSent + 1) :
    /\ Taking(line, "null", Unset) /\ Taken(line) /\ NoOperation
    /\ error("Cannot destructure property 'id' of 'msg' as it is null.", Unset)
    /\ result' = NoResult
    /\ UNCHANGED stdout

\* Mutant of McpSilent: a notifications/initialized that carries an id is answered.
McpSilentAnswers ==
  AtRead /\ \E line \in Lines(nSent + 1) :
    /\ \/ Taking(line, "scalar", Unset)
       \/ Taking(line, "object", "notifications/initialized")
       \/ \E m \in {"ping", Unset} : Taking(line, "object", m) /\ line.id = NoId
    /\ Taken(line) /\ NoOperation
    /\ IF line.method = "notifications/initialized" /\ line.id # NoId
         THEN respond(line.id, NoResult)
         ELSE result' = NoResult /\ UNCHANGED stdout
    /\ UNCHANGED <<pc, console, exitCode>>

\* No case matches and there is no id (a number, a string, an object without
\* method and id), or the case is 'notifications/initialized'.
McpSilent ==
  AtRead /\ \E line \in Lines(nSent + 1) :
    /\ \/ Taking(line, "scalar", Unset)
       \/ Taking(line, "object", "notifications/initialized")
       \/ \E m \in {"ping", Unset} : Taking(line, "object", m) /\ line.id = NoId
    /\ Taken(line) /\ NoOperation
    /\ result' = NoResult
    /\ UNCHANGED <<pc, console, exitCode, stdout>>

\* Mutant of McpDefault: the error is written whether or not there is an id.
McpDefaultUnguarded ==
  AtRead /\ \E line \in Lines(nSent + 1) :
    /\ \E m \in {"ping", Unset} : Taking(line, "object", m)
    /\ Taken(line) /\ NoOperation
    /\ respondError(line.id, MethodNotFound, <<"Method not found: ", line.method>>)
    /\ UNCHANGED <<pc, console, exitCode>>

\* default: if (id !== undefined) respondError(id, -32601, ...)
McpDefault ==
  AtRead /\ \E line \in Lines(nSent + 1) :
    /\ \E m \in {"ping", Unset} : Taking(line, "object", m) /\ line.id # NoId
    /\ Taken(line) /\ NoOperation
    /\ respondError(line.id, MethodNotFound, <<"Method not found: ", line.method>>)
    /\ UNCHANGED <<pc, console, exitCode>>

McpInitialize ==
  AtRead /\ \E line \in Lines(nSent + 1) :
    /\ Taking(line, "object", "initialize") /\ Taken(line) /\ NoOperation
    /\ RespondsAtOnce(line, Result(<<"protocolVersion", "capabilities", "serverInfo">>, FALSE))

\* The catalog: const tools = [...]
tools == <<"deploy", "list", "invoke", "restart", "new", "config", "migrate", "docs">>

McpToolsList ==
  AtRead /\ \E line \in Lines(nSent + 1) :
    /\ Taking(line, "object", "tools/list") /\ Taken(line) /\ NoOperation
    /\ RespondsAtOnce(line, Result(tools, FALSE))

\* Mutant of McpCallThrows: the catch answers on the error channel.
McpCallThrowsError ==
  AtRead /\ \E line \in Lines(nSent + 1) :
    /\ Taking(line, "object", "tools/call") /\ ~line.params.present
    /\ Taken(line) /\ NoOperation
    /\ respondError(line.id, 0 - 32603, <<"Cannot read properties of undefined (reading 'name')">>)
    /\ UNCHANGED <<pc, console, exitCode>>

\* tools/call without params: params.name throws inside the try.
McpCallThrows ==
  AtRead /\ \E line \in Lines(nSent + 1) :
    /\ Taking(line, "object", "tools/call") /\ ~line.params.present
    /\ Taken(line) /\ NoOperation
    /\ RespondsAtOnce(line, Result(<<"Error: ", "Cannot read properties of undefined (reading 'name')">>, TRUE))

----------------------------------------------------------------------------
\* handleTool: the texts it returns.

ServerAndPathError == <<"Error: server and remotePath must be configured.">>
ServerError == <<"Error: server must be configured.">>
UrlError == <<"Error: url must be configured for invoke.">>
NameError == <<"Error: function name is required.">>

\* `Deployed${funcName ? ` ${funcName}` : ' all functions'}${noRestart ? ' (no restart)' : ''}\n\n${output}`
DeployedText(funcName, noRestart, output) ==
  <<"Deployed", IF Truthy(funcName) THEN funcName ELSE " all functions",
    IF noRestart THEN " (no restart)" ELSE Unset>> \o output

\* `Error: Database container not found (filter: ${config.dbContainer})`
DbNotFoundText == <<"Error: Database container not found (filter: )", config.dbContainer>>


\* The operation of a tools/call starts: its locals, no command run yet.
Starts(l) == loc' = l /\ cmds' = <<>> /\ writes' = <<>>

----------------------------------------------------------------------------
\* case 'deploy'

\* Up to the first captureExec.
ToolDeploy ==
  AtRead /\ \E line \in Lines(nSent + 1) :
    /\ TakingCall(line, "deploy") /\ Taken(line)
    /\ IF ~Truthy(config.server) \/ ~Truthy(config.remotePath)
         THEN Starts(Loc0) /\ RespondsAtOnce(line, Result(ServerAndPathError, FALSE))
       ELSE IF ~Truthy(line.params.arguments.name)
         THEN /\ Starts([Loc0 EXCEPT !.op = "deploy", !.noRestart = line.params.arguments.noRestart])
              /\ GoesOn("tool_deploy_sync")
       ELSE \E kind \in PathKinds :
              /\ Starts([Loc0 EXCEPT !.op = "deploy", !.funcName = line.params.arguments.name,
                                     !.noRestart = line.params.arguments.noRestart, !.pathKind = kind])
              /\ IF ~existsSync(kind)
                   THEN RespondsAtOnce(line, Result(<<"Error: Function not found: ", line.params.arguments.name>>, FALSE))
                   ELSE GoesOn("tool_deploy_sync")

\* Mutant of ToolDeploySync: the tool syncs the whole tree whatever the name.
ToolDeploySyncsAll ==
  /\ pc = "tool_deploy_sync"
  /\ \E o \in Outcomes("sync") :
       /\ cmds' = Append(cmds, Ran(RsyncAll, o))
       /\ IF RestartAfterSync(loc.noRestart)
            THEN /\ loc' = [loc EXCEPT !.output = <<captureExec(o)>>]
                 /\ pc' = "tool_deploy_restart"
                 /\ UNCHANGED <<env, pkg, config, argv, console, exitCode, mcpVars>>
            ELSE /\ loc' = [loc EXCEPT !.output = <<captureExec(o)>>]
                 /\ Responds(Result(DeployedText(loc.funcName, loc.noRestart,
                                                 <<captureExec(o)>>), FALSE))
  /\ UNCHANGED writes

\* output = captureExec(`rsync ...`), then the branch on noRestart.
ToolDeploySync ==
  /\ pc = "tool_deploy_sync"
  /\ \E o \in Outcomes("sync") :
       /\ cmds' = Append(cmds, Ran(DeployRsync(loc.funcName), o))
       /\ IF RestartAfterSync(loc.noRestart)
            THEN /\ loc' = [loc EXCEPT !.output = <<captureExec(o)>>]
                 /\ pc' = "tool_deploy_restart"
                 /\ UNCHANGED <<env, pkg, config, argv, console, exitCode, mcpVars>>
            ELSE /\ loc' = [loc EXCEPT !.output = <<captureExec(o)>>]
                 /\ Responds(Result(DeployedText(loc.funcName, loc.noRestart,
                                                 <<captureExec(o)>>), FALSE))
  /\ UNCHANGED writes

\* output += '\n' + captureExec(`ssh server "docker restart ..."`)
ToolDeployRestart ==
  /\ pc = "tool_deploy_restart"
  /\ \E o \in Outcomes("restart") :
       /\ cmds' = Append(cmds, Ran(SshRestart, o))
       /\ loc' = [loc EXCEPT !.output = loc.output \o <<captureExec(o)>>]
       /\ Responds(Result(DeployedText(loc.funcName, loc.noRestart,
                                       loc.output \o <<captureExec(o)>>), FALSE))
  /\ UNCHANGED writes

----------------------------------------------------------------------------
\* case 'list'

ToolList ==
  AtRead /\ \E line \in Lines(nSent + 1) :
    /\ TakingCall(line, "list") /\ Taken(line)
    /\ IF ~Truthy(config.server) \/ ~Truthy(config.remotePath)
         THEN Starts(Loc0) /\ RespondsAtOnce(line, Result(ServerAndPathError, FALSE))
         ELSE Starts([Loc0 EXCEPT !.op = "list"]) /\ GoesOn("tool_list_remote")

\* remote = captureExec(`ssh server "ls -1 remotePath"`) || '(none)', then the
\* local listing.
ToolListRemote ==
  /\ pc = "tool_list_remote"
  /\ \E o \in Outcomes("ls"), kind \in PathKinds, entries \in SUBSET LocalEntries :
       LET remote == Or(captureExec(o), "(none)")
           dirs == DirNames(entries)
           local == IF kind = "dir" /\ dirs # {} THEN dirs ELSE {"(none)"}
       IN
       /\ kind # "dir" => entries = {}
       /\ cmds' = Append(cmds, Ran(SshLs, o))
       /\ loc' = [loc EXCEPT !.pathKind = kind, !.entries = entries]
       /\ IF kind = "file"
            \* readdirSync throws ENOTDIR; the catch of tools/call answers
            THEN Responds(Result(<<"Error: ", "ENOTDIR: not a directory, scandir">>, TRUE))
            ELSE Responds([text |-> <<"Remote functions:", "Local functions:">>,
                           isError |-> FALSE, remote |-> remote, local |-> local])
  /\ UNCHANGED writes

----------------------------------------------------------------------------
\* case 'invoke'

ToolInvoke ==
  AtRead /\ \E line \in Lines(nSent + 1) :
    /\ TakingCall(line, "invoke") /\ Taken(line)
    /\ IF ~Truthy(config.url)
         THEN Starts(Loc0) /\ RespondsAtOnce(line, Result(UrlError, FALSE))
       ELSE IF ~Truthy(line.params.arguments.name)
         THEN Starts(Loc0) /\ RespondsAtOnce(line, Result(NameError, FALSE))
       ELSE /\ Starts([Loc0 EXCEPT !.op = "invoke", !.funcName = line.params.arguments.name])
            /\ GoesOn("tool_invoke_post")

\* execSync(cmd) hands the command line to sh.  In `... -d '${data}'` the data
\* stands between two apostrophes: an apostrophe inside it ends the quoted part,
\* a second one opens a new one.  With an odd number of them a quote of the
\* line is left open, sh reports a syntax error (exit 2) and runs nothing; with
\* an even number curl gets the pieces without the apostrophes.
IsApostrophe(t) == t = "'"
NotApostrophe(t) == t # "'"
ShUnterminated(data) == Len(SelectSeq(data, IsApostrophe)) % 2 = 1
ShSingleQuoted(data) == SelectSeq(data, NotApostrophe)
ShSyntaxError == [exit |-> 2, out |-> Unset]

\* const data = args.data || '{}'; output = captureExec(`curl ... -d '${data}'`)
ToolInvokePost ==
  /\ pc = "tool_invoke_post"
  /\ \E o \in Outcomes("post") :
       LET data == IF req.params.arguments.data = NoData
                     THEN <<"{}">> ELSE req.params.arguments.data
       IN
       IF ShUnterminated(data)
         THEN /\ cmds' = cmds
              /\ Responds(Result(<<captureExec(ShSyntaxError)>>, FALSE))
         ELSE /\ cmds' = Append(cmds, Ran(CurlPost(loc.funcName, ShSingleQuoted(data)), o))
              /\ Responds(Result(<<captureExec(o)>>, FALSE))
  /\ UNCHANGED <<loc, writes>>

----------------------------------------------------------------------------
\* case 'restart'

ToolRestart ==
  AtRead /\ \E line \in Lines(nSent + 1) :
    /\ TakingCall(line, "restart") /\ Taken(line)
    /\ IF ~Truthy(config.server)
         THEN Starts(Loc0) /\ RespondsAtOnce(line, Result(ServerError, FALSE))
         ELSE Starts([Loc0 EXCEPT !.op = "restart"]) /\ GoesOn("tool_restart_run")

ToolRestartRun ==
  /\ pc = "tool_restart_run"
  /\ \E o \in Outcomes("restart") :
       /\ cmds' = Append(cmds, Ran(SshRestart, o))
       /\ Responds(Result(<<"Restarted edge-runtime", captureExec(o)>>, FALSE))
  /\ UNCHANGED <<loc, writes>>

----------------------------------------------------------------------------
\* case 'new', case 'config', case 'docs', default

\* Mutant of ToolNew: the starter file is written over an existing unit.
ToolNewOverwrites ==
  AtRead /\ \E line \in Lines(nSent + 1) :
    /\ TakingCall(line, "new") /\ Taken(line)
    /\ cmds' = <<>>
    /\ IF ~Truthy(line.params.arguments.name)
         THEN loc' = Loc0 /\ writes' = <<>> /\ RespondsAtOnce(line, Result(NameError, FALSE))
       ELSE \E kind \in PathKinds :
         /\ loc' = [Loc0 EXCEPT !.op = "new", !.funcName = line.params.arguments.name, !.pathKind = kind]
         /\ writes' = Scaffold(line.params.arguments.name)
         /\ RespondsAtOnce(line, Result(<<"Created ", line.params.arguments.name>>, FALSE))

ToolNew ==
  AtRead /\ \E line \in Lines(nSent + 1) :
    /\ TakingCall(line, "new") /\ Taken(line)
    /\ cmds' = <<>>
    /\ IF ~Truthy(line.params.arguments.name)
         THEN loc' = Loc0 /\ writes' = <<>> /\ RespondsAtOnce(line, Result(NameError, FALSE))
       ELSE \E kind \in PathKinds :
         /\ loc' = [Loc0 EXCEPT !.op = "new", !.funcName = line.params.arguments.name, !.pathKind = kind]
         /\ IF existsSync(kind)
              THEN /\ writes' = <<>>
                   /\ RespondsAtOnce(line, Result(<<"Error: Function already exists: ", line.params.arguments.name>>, FALSE))
              ELSE /\ writes' = Scaffold(line.params.arguments.name)
                   /\ RespondsAtOnce(line, Result(<<"Created ", line.params.arguments.name>>, FALSE))

ToolConfig ==
  AtRead /\ \E line \in Lines(nSent + 1) :
    /\ TakingCall(line, "config") /\ Taken(line) /\ Starts(Loc0)
    /\ RespondsAtOnce(line, [text |-> <<"Current configuration:">>, isError |-> FALSE,
                       server |-> Or(config.server, "(not set)"),
                       remotePath |-> Or(config.remotePath, "(not set)"),
                       url |-> Or(config.url, "(not set)"),
                       localPath |-> config.localPath,
                       migrationsPath |-> config.migrationsPath,
                       edgeContainer |-> config.edgeContainer,
                       dbContainer |-> config.dbContainer])

ToolDocs ==
  AtRead /\ \E line \in Lines(nSent + 1) :
    /\ TakingCall(line, "docs") /\ Taken(line) /\ Starts(Loc0)
    /\ RespondsAtOnce(line, Result(<<"# shsu - Self-Hosted Supabase Utilities">>, FALSE))

ToolUnknown ==
  AtRead /\ \E line \in Lines(nSent + 1) :
    /\ Taking(line, "object", "tools/call") /\ line.params.present
    /\ line.params.name \notin ToolNames
    /\ Taken(line) /\ Starts(Loc0)
    /\ RespondsAtOnce(line, Result(<<"Unknown tool: ", line.params.name>>, TRUE))

----------------------------------------------------------------------------
\* case 'migrate'

\* Up to the first captureExec: the checks and the list of files.
ToolMigrate ==
  AtRead /\ \E line \in Lines(nSent + 1) :
    /\ TakingCall(line, "migrate") /\ Taken(line)
    /\ IF ~Truthy(config.server)
         THEN Starts(Loc0) /\ RespondsAtOnce(line, Result(ServerError, FALSE))
       ELSE \E kind \in PathKinds, listing \in Listings :
         LET migrations == MigrationsOf(listing) IN
         /\ kind # "dir" => listing = <<>>
         /\ Starts([Loc0 EXCEPT !.op = "migrate", !.pathKind = kind,
                                !.entries = Range(listing), !.migrations = migrations,
                                !.i = 1,
                                !.output = <<"Found migration(s): ">> \o migrations])
         /\ CASE kind = "absent" ->
                   RespondsAtOnce(line, Result(<<"Error: Migrations folder not found: ",
                                           config.migrationsPath>>, FALSE))
              [] kind = "file" ->
                   \* readdirSync throws ENOTDIR; the catch of tools/call answers
                   RespondsAtOnce(line, Result(<<"Error: ", "ENOTDIR: not a directory, scandir">>, TRUE))
              [] kind = "dir" ->
                   IF Len(migrations) = 0
                     THEN RespondsAtOnce(line, Result(<<"No migration files found in ",
                                                  config.migrationsPath>>, FALSE))
                     ELSE GoesOn("tool_migrate_stage")

\* output += captureExec(`rsync -avz --delete ...`) + '\n'
ToolMigrateStage ==
  /\ pc = "tool_migrate_stage"
  /\ \E o \in Outcomes("stage") :
       /\ cmds' = Append(cmds, Ran(RsyncMigrations, o))
       /\ loc' = [loc EXCEPT !.output = loc.output \o <<captureExec(o)>>]
  /\ pc' = "tool_migrate_lookup"
  /\ UNCHANGED <<env, pkg, config, argv, writes, console, exitCode, mcpVars>>

\* const dbContainer = captureExec(...); if (!dbContainer) return the error text
ToolMigrateLookup ==
  /\ pc = "tool_migrate_lookup"
  /\ \E o \in Outcomes("lookup") :
       /\ cmds' = Append(cmds, Ran(SshFindDb, o))
       /\ loc' = [loc EXCEPT !.dbContainer = captureExec(o)]
       /\ IF ~Truthy(captureExec(o))
            THEN Responds(Result(DbNotFoundText, FALSE))
            ELSE /\ pc' = "tool_migrate_run"
                 /\ UNCHANGED <<env, pkg, config, argv, console, exitCode, mcpVars>>
  /\ UNCHANGED writes

\* Mutant of ToolMigrateRun: the tool answers at the first file that fails.
ToolMigrateRunStops ==
  /\ pc = "tool_migrate_run"
  /\ \E o \in Outcomes("psql") :
       LET migration == loc.migrations[loc.i]
           output == loc.output \o <<"Running ", migration, captureExec(o)>>
       IN
       /\ cmds' = Append(cmds, Ran(SshPsql(loc.dbContainer, migration), o))
       /\ IF o.exit = 0 /\ loc.i < Len(loc.migrations)
            THEN /\ loc' = [loc EXCEPT !.i = loc.i + 1, !.output = output]
                 /\ UNCHANGED <<env, pkg, config, pc, argv, console, exitCode, mcpVars>>
            ELSE /\ loc' = [loc EXCEPT !.i = loc.i + 1,
                                       !.output = output \o <<"All migrations applied.">>]
                 /\ Responds(Result(output \o <<"All migrations applied.">>, FALSE))
  /\ UNCHANGED writes

\* One turn of the for loop: output += `\nRunning ${migration}...\n` + captureExec(...)
\* + '\n'; after the last turn output += '\nAll migrations applied.' and the return.
ToolMigrateRun ==
  /\ pc = "tool_migrate_run"
  /\ \E o \in Outcomes("psql") :
       LET migration == loc.migrations[loc.i]
           output == loc.output \o <<"Running ", migration, captureExec(o)>>
       IN
       /\ cmds' = Append(cmds, Ran(SshPsql(loc.dbContainer, migration), o))
       /\ IF loc.i < Len(loc.migrations)
            THEN /\ loc' = [loc EXCEPT !.i = loc.i + 1, !.output = output]
                 /\ UNCHANGED <<env, pkg, config, pc, argv, console, exitCode, mcpVars>>
            ELSE /\ loc' = [loc EXCEPT !.i = loc.i + 1,
                                       !.output = output \o <<"All migrations applied.">>]
                 /\ Responds(Result(output \o <<"All migrations applied.">>, FALSE))
  /\ UNCHANGED writes

----------------------------------------------------------------------------
\* The process.

Init ==
  /\ env \in EnvInputs
  /\ pkg \in PkgInputs
  /\ config = loadConfig(env, pkg)
  /\ argv \in ArgvInputs
  /\ pc = "main"
  /\ loc = Loc0
  /\ cmds = <<>>
  /\ writes = <<>>
  /\ console = <<>>
  /\ exitCode = Running
  /\ stdin = <<>>
  /\ stdinOpen = TRUE
  /\ nSent = 0
  /\ req = NoReq
  /\ stdout = <<>>
  /\ result = NoResult
  /\ asked = <<>>

\* loadConfig on its own: every field set or unset in the environment and in
\* package.json, then const config = loadConfig().
SettingsFrom(value) == [Fields -> {Unset, value}]

InitLoadConfig ==
  /\ env \in SettingsFrom("from-env")
  /\ pkg \in SettingsFrom("from-package.json")
  /\ config = NoSettings
  /\ argv = <<"env">>
  /\ pc = "load"
  /\ loc = Loc0
  /\ cmds = <<>>
  /\ writes = <<>>
  /\ console = <<>>
  /\ exitCode = Running
  /\ stdin = <<>>
  /\ stdinOpen = TRUE
  /\ nSent = 0
  /\ req = NoReq
  /\ stdout = <<>>
  /\ result = NoResult
  /\ asked = <<>>

LoadConfig ==
  /\ pc = "load"
  /\ config' = loadConfig(env, pkg)
  /\ pc' = "main"
  /\ UNCHANGED <<env, pkg, argv, loc, cmds, writes, console, exitCode, mcpVars>>

SpecLoadConfig == InitLoadConfig /\ [][LoadConfig]_vars

Cli ==
  \/ CliDeploy \/ CliDeploySync \/ CliDeployRestart
  \/ CliLogs \/ CliLogsStream
  \/ CliList \/ CliListRemote
  \/ CliInvoke \/ CliInvokePost
  \/ CliRestart \/ CliRestartRun
  \/ CliMigrate \/ CliMigrateStage \/ CliMigrateLookup \/ CliMigrateRun
  \/ CliNew \/ CliEnv \/ CliHelp \/ CliUnknown \/ CliMcp

Mcp ==
  \/ ClientSend \/ ClientClose \/ McpEof
  \/ McpInvalid \/ McpNull \/ McpSilent \/ McpDefault
  \/ McpInitialize \/ McpToolsList \/ McpCallThrows
  \/ ToolDeploy \/ ToolDeploySync \/ ToolDeployRestart
  \/ ToolList \/ ToolListRemote
  \/ ToolInvoke \/ ToolInvokePost
  \/ ToolRestart \/ ToolRestartRun
  \/ ToolNew \/ ToolConfig \/ ToolDocs \/ ToolUnknown
  \/ ToolMigrate \/ ToolMigrateStage \/ ToolMigrateLookup \/ ToolMigrateRun

Next == Cli \/ Mcp

Spec == Init /\ [][Next]_vars

----------------------------------------------------------------------------
\* Vocabulary of the properties.

IsCli == Command # "mcp"
Last(s) == s[Len(s)]

\* The operation of the process (CLI) or of the current tools/call has ended.
CliEnded == IsCli /\ pc = "exit"
ToolEnded == ~IsCli /\ pc = "mcp_read" /\ req.method = "tools/call" /\ result # NoResult
ToolCalled(name) == ~IsCli /\ req.method = "tools/call" /\ req.params.present
                      /\ req.params.name = name

IsVerb(k, verb) == cmds[k].cmd.verb = verb
Ks(verb) == {k \in 1..Len(cmds) : IsVerb(k, verb)}

\* The CLI ended in error(...) with this text.
DiedWith(text) ==
  /\ CliEnded /\ exitCode = 1 /\ console # <<>>
  /\ Last(console).level = "error" /\ Last(console).text = text

\* The unit and the flag given to deploy, read off the input.
UnitGiven ==
  IF IsCli THEN (IF "hello" \in Range(argv) THEN "hello" ELSE Unset)
  ELSE req.params.arguments.name
RestartSuppressed ==
  IF IsCli THEN "--no-restart" \in Range(argv) ELSE req.params.arguments.noRestart

\* The migration files run so far, in the order they ran.
IsPsql(r) == r.cmd.verb = "psql"
Executed == [k \in 1..Len(SelectSeq(cmds, IsPsql)) |-> SelectSeq(cmds, IsPsql)[k].cmd.arg]
SqlEntries == {f \in loc.entries : endsWith(f, SqlSuffix)}

----------------------------------------------------------------------------
\* C1.  With server or remotePath missing, every remote-dependent operation
\* (CLI deploy, list, restart, migrate, logs; tools deploy, list, restart,
\* migrate) runs no remote command and ends in the missing-configuration failure.
C1_MissingConfigBlocksRemote ==
  (~Truthy(config.server) \/ ~Truthy(config.remotePath)) =>
    /\ \A k \in 1..Len(cmds) : cmds[k].cmd.prog \notin {"rsync", "ssh"}
    /\ (CliEnded /\ Command \in {"deploy", "list", "restart", "migrate", "logs"})
         => DiedWith("Missing required env var: SHSU_")
    /\ (ToolEnded /\ req.params.present
          /\ req.params.name \in {"deploy", "list", "restart", "migrate"})
         => result.text \in {ServerAndPathError, ServerError}

\* C2.  In a deploy, a restart command never follows a failed sync command.
C2_NoRestartAfterFailedSync ==
  loc.op = "deploy" =>
    \A j \in Ks("restart") : \A k \in Ks("sync") : k < j => cmds[k].exit = 0


----------------------------------------------------------------------------
\* Migrate ended without reporting a failure.
ErrorHeads ==
  {"Error: ", "Error: Migrations folder not found: ",
   "Error: Database container not found (filter: )"}
MigrateEndedOk ==
  /\ loc.op = "migrate"
  /\ \/ CliEnded /\ exitCode = 0
     \/ ToolEnded /\ result.text[1] \notin ErrorHeads

F1 == <<"1", ".", "s", "q", "l">>
F10 == <<"1", "0", ".", "s", "q", "l">>
F2 == <<"2", ".", "s", "q", "l">>

\* C3.  Migrate runs only entries of the migrations directory that end in .sql,
\* in strictly ascending code-unit order (so none twice, and none before one
\* that sorts earlier), skips none on the way, and has run every one of them
\* when it ends without failure.
C3_MigrationOrder ==
  loc.op = "migrate" =>
    /\ \A k \in 1..Len(Executed) : Executed[k] \in SqlEntries
    /\ \A j, k \in 1..Len(Executed) : j < k => LexLess(Executed[j], Executed[k])
    /\ \A f \in SqlEntries \ Range(Executed) :
         \A k \in 1..Len(Executed) : LexLess(Executed[k], f)
    /\ MigrateEndedOk => Range(Executed) = SqlEntries

\* 2.sql and 10.sql were both run by the CLI: 10.sql first.
C3_Witness ==
  /\ IsCli /\ MigrateEndedOk
  /\ loc.entries = {F2, F10}
  /\ Executed = <<F10, F2>>

\* C4.  CLI migrate is fail-fast: a failing migration command is the last
\* command of the process, which exits non-zero without 'All migrations
\* applied'; that message is printed only when every command exited zero.
AllApplied == Msg("success", "All migrations applied", Unset)
C4_CliMigrateFailFast ==
  (IsCli /\ loc.op = "migrate") =>
    /\ \A k \in Ks("psql") :
         cmds[k].exit # 0 =>
           /\ k = Len(cmds)
           /\ DiedWith("Failed to apply ")
           /\ AllApplied \notin Range(console)
    /\ AllApplied \in Range(console) =>
         /\ \A k \in 1..Len(cmds) : cmds[k].exit = 0
         /\ Range(Executed) = SqlEntries

\* Of two migration files the first failed, and the second was never run.
C4_Witness ==
  /\ IsCli /\ loc.op = "migrate" /\ pc = "exit"
  /\ Cardinality(SqlEntries) = 2
  /\ Len(Executed) = 1
  /\ cmds[Len(cmds)].exit # 0

\* The text the migrate tool has to return after the commands in cmds.
RECURSIVE Reported(_)
Reported(k) ==
  IF k = 0 THEN <<>>
  ELSE Reported(k - 1)
         \o <<"Running ", Executed[k],
              IF SelectSeq(cmds, IsPsql)[k].exit = 0
                THEN SelectSeq(cmds, IsPsql)[k].out ELSE FailText>>

\* C5.  The migrate tool continues and reports: once the database container
\* is resolved it does not answer before every .sql file has been attempted,
\* in order, whatever failed; the one response holds the output of every file.
C5_ToolMigrateContinues ==
  (~IsCli /\ loc.op = "migrate" /\ Truthy(loc.dbContainer)) =>
    /\ Len(Executed) < Cardinality(SqlEntries) => pc = "tool_migrate_run"
    /\ ToolEnded =>
         /\ Range(Executed) = SqlEntries
         /\ Len(Executed) = Cardinality(SqlEntries)
         /\ \A j, k \in 1..Len(Executed) : j < k => LexLess(Executed[j], Executed[k])
         /\ Len(result.text) > 3 * Len(Executed)
         /\ SubSeq(result.text, Len(result.text) - 3 * Len(Executed), Len(result.text))
              = Reported(Len(Executed)) \o <<"All migrations applied.">>

\* The first of two files failed, the second was run, and the tool answered.
C5_Witness ==
  /\ ToolEnded /\ loc.op = "migrate"
  /\ Len(Executed) = 2
  /\ SelectSeq(cmds, IsPsql)[1].exit # 0


\* C6.  In migrate, a container lookup that succeeds with an empty result is
\* the last command: no migration file is run, and the operation ends with the
\* not-found message naming the configured dbContainer filter.
C6_DbContainerNotFound ==
  loc.op = "migrate" =>
    \A k \in Ks("lookup") :
      (cmds[k].exit = 0 /\ cmds[k].out = Unset) =>
        /\ k = Len(cmds) /\ Ks("psql") = {}
        /\ IsCli => /\ DiedWith("Database container not found (filter: )")
                    /\ Last(console).arg = config.dbContainer
        /\ ~IsCli => /\ pc \in {"mcp_read", "exit"}
                     /\ result.text = <<"Error: Database container not found (filter: )",
                                        config.dbContainer>>

\* The lookup found nothing under the filter supabase-db, in the CLI.
C6_Witness ==
  /\ IsCli /\ loc.op = "migrate" /\ pc = "exit"
  /\ config.dbContainer = "supabase-db"
  /\ \E k \in Ks("lookup") : cmds[k].exit = 0 /\ cmds[k].out = Unset

\* C7.  The sync of a deploy without a unit mirrors (--delete) into the whole
\* remotePath; with a unit it has no --delete and goes from the unit's local
\* directory into remotePath/<unit>/ only.
C7_SyncScope ==
  loc.op = "deploy" =>
    \A k \in Ks("sync") :
      IF ~Truthy(UnitGiven)
        THEN /\ cmds[k].cmd.delete
             /\ cmds[k].cmd.src = <<config.localPath, "/">>
             /\ cmds[k].cmd.dest = <<config.server, ":", config.remotePath, "/">>
        ELSE /\ ~cmds[k].cmd.delete
             /\ cmds[k].cmd.src = <<config.localPath, "/", UnitGiven, "/">>
             /\ cmds[k].cmd.dest
                  = <<config.server, ":", config.remotePath, "/", UnitGiven, "/">>

\* The tool synced the unit hello.
C7_Witness ==
  /\ ToolEnded /\ loc.op = "deploy" /\ UnitGiven = "hello"
  /\ \E k \in Ks("sync") : cmds[k].exit = 0

\* C8.  A deploy of a unit whose directory does not exist under localPath runs
\* no command and ends with the not-found failure.
C8_MissingUnitBlocksRemote ==
  (loc.op = "deploy" /\ Truthy(UnitGiven) /\ loc.pathKind # "dir") =>
    /\ cmds = <<>>
    /\ CliEnded => DiedWith("Function not found: ")
    /\ ToolEnded => result.text[1] = "Error: Function not found: "

\* C9.  A deploy with the restart suppressed (--no-restart, noRestart: true)
\* runs no restart command.
C9_NoRestartWhenSuppressed ==
  (loc.op = "deploy" /\ RestartSuppressed) => Ks("restart") = {}

\* The CLI synced with --no-restart and ended with 'Synced'.
C9_Witness ==
  /\ CliEnded /\ loc.op = "deploy" /\ RestartSuppressed
  /\ \E k \in Ks("sync") : cmds[k].exit = 0
  /\ exitCode = 0

\* C10.  Whatever the client writes, every request with an id and a supported
\* method gets exactly one response with its id, in the order of the reads and
\* before the next read; no such request is left unanswered when the responder
\* has exited.
IsAnswer(r) == r.chan = "result" /\ r.id # NoId
Answered == [k \in 1..Len(SelectSeq(stdout, IsAnswer)) |-> SelectSeq(stdout, IsAnswer)[k].id]
InHandler == pc \notin {"main", "mcp_read", "exit"}
C10_OneResponsePerRequest ==
  ~IsCli =>
    /\ Answered = IF InHandler /\ req.id # NoId
                    THEN SubSeq(asked, 1, Len(asked) - 1) ELSE asked
    /\ pc = "exit" =>
         \A k \in 1..Len(stdin) : ~(stdin[k].id # NoId /\ stdin[k].method \in Supported)


----------------------------------------------------------------------------
\* The responder takes a line in this step: it becomes req.
Reads == pc = "mcp_read" /\ nSent' = nSent + 1
ReadsMethod(m) == Reads /\ req'.json = "object" /\ req'.method = m

\* C11.  A request without an id never causes an output line: every line on
\* stdout answers a request that carried an id, whatever the method.
C11_NotificationsSilent ==
  \A k \in 1..Len(stdout) : stdout[k].id # NoId

\* C12.  A notifications/initialized message, with or without an id, writes no
\* line and leaves the responder at the read of the next line.
C12_InitializedSilent ==
  [][ReadsMethod("notifications/initialized")
       => stdout' = stdout /\ pc' = "mcp_read"]_vars

\* The second line was a notifications/initialized with an id, after a first
\* line that was answered: only the first line's response is on stdout.
C12_Witness ==
  /\ pc = "mcp_read" /\ nSent = 2
  /\ req.method = "notifications/initialized" /\ req.id = <<2>>
  /\ Len(stdout) = 1 /\ stdout[1].id = <<1>>

\* C13.  A request whose method is none of initialize, notifications/initialized,
\* tools/list, tools/call gets exactly one error response with code -32601 and
\* its id when it has an id, and nothing when it has none.
C13_MethodNotFound ==
  [][(Reads /\ req'.json = "object"
        /\ req'.method \notin Supported \cup {"notifications/initialized"})
       => /\ pc' = "mcp_read"
          /\ IF req'.id # NoId
               THEN /\ stdout' = Append(stdout, [id |-> req'.id, chan |-> "error"])
                    /\ result'.code = 0 - 32601
               ELSE stdout' = stdout]_vars

\* A ping with an id was answered on the error channel with -32601.
C13_Witness ==
  /\ pc = "mcp_read" /\ req.method = "ping" /\ req.id # NoId
  /\ stdout # <<>> /\ Last(stdout) = [id |-> req.id, chan |-> "error"]
  /\ "code" \in DOMAIN result /\ result.code = MethodNotFound


\* A message has been dealt with: the responder is back at the read, or has ended.
Dealt == ~IsCli /\ pc \in {"mcp_read", "exit"} /\ req.json = "object"

\* C14.  A tools/call with an id is answered on the result channel, never on the
\* error channel, whether the tool succeeds, reports a failure, is unknown or
\* throws; while the tool runs, the handler can always take its next step.
C14_ToolCallsAnswerOnResult ==
  /\ (Dealt /\ req.method = "tools/call" /\ req.id # NoId) =>
       /\ stdout # <<>> /\ Last(stdout) = [id |-> req.id, chan |-> "result"]
       /\ result # NoResult /\ "text" \in DOMAIN result
  /\ InHandler /\ ~IsCli => ENABLED Mcp

\* A tools/call without params (the handler throws) was answered on the result
\* channel with isError.
C14_Witness ==
  /\ Dealt /\ req.method = "tools/call" /\ req.id # NoId /\ ~req.params.present
  /\ Last(stdout) = [id |-> req.id, chan |-> "result"] /\ result.isError

\* The program counters of the handler of each tool that runs commands.
HandlerPcs(name) ==
  CASE name = "deploy" -> {"tool_deploy_sync", "tool_deploy_restart"}
    [] name = "list" -> {"tool_list_remote"}
    [] name = "invoke" -> {"tool_invoke_post"}
    [] name = "restart" -> {"tool_restart_run"}
    [] name = "migrate" -> {"tool_migrate_stage", "tool_migrate_lookup", "tool_migrate_run"}
    [] OTHER -> {}

\* C15.  tools/list answers with exactly the eight names deploy, list, invoke,
\* restart, new, config, migrate, docs; a tools/call of any of them runs that
\* tool's handler and is never answered 'Unknown tool'.
C15_CatalogAndDispatch ==
  /\ (Dealt /\ req.method = "tools/list") =>
       /\ Len(result.text) = 8
       /\ Range(result.text)
            = {"deploy", "list", "invoke", "restart", "new", "config", "migrate", "docs"}
  /\ \A name \in {"deploy", "list", "invoke", "restart", "new", "config", "migrate", "docs"} :
       ToolCalled(name) =>
         /\ InHandler => pc \in HandlerPcs(name)
         /\ loc.op \in {"none", name}
         /\ Dealt => result.text[1] # "Unknown tool: "

\* tools/list with an id was answered with the eight names.
C15_Witness ==
  /\ Dealt /\ req.method = "tools/list" /\ req.id # NoId
  /\ Last(stdout) = [id |-> req.id, chan |-> "result"]
  /\ Len(result.text) = 8


\* The built-in default of a field; server, remotePath and url have none.
BuiltIn(f) ==
  CASE f = "localPath" -> "./supabase/functions"
    [] f = "migrationsPath" -> "./supabase/migrations"
    [] f = "edgeContainer" -> "edge"
    [] f = "dbContainer" -> "postgres"
    [] OTHER -> Unset

\* C16.  Every field of the loaded configuration is the environment's value when
\* set, else package.json's when set, else the built-in default, or absent for
\* server, remotePath and url; the four defaulted fields are never empty.
C16_ConfigPrecedence ==
  pc = "main" =>
    /\ \A f \in Fields :
         config[f] = IF env[f] # Unset THEN env[f]
                     ELSE IF pkg[f] # Unset THEN pkg[f]
                     ELSE BuiltIn(f)
    /\ \A f \in {"localPath", "migrationsPath", "edgeContainer", "dbContainer"} :
         config[f] # Unset

\* Loaded with localPath set in both places, server in package.json only,
\* url in neither and dbContainer in neither.
C16_Witness ==
  /\ pc = "main"
  /\ env.localPath # Unset /\ pkg.localPath # Unset
  /\ env.server = Unset /\ pkg.server # Unset
  /\ env.url = Unset /\ pkg.url = Unset /\ config.url = Unset
  /\ env.dbContainer = Unset /\ pkg.dbContainer = Unset


\* The local units the CLI's list printed, and those the tool's list answered
\* ('(none)' is how the tool writes the empty list).
IsLocalListing(m) == m.text = "local"
IsRemoteListing(m) == m.text = "remote"
CliLocalListed ==
  IF SelectSeq(console, IsLocalListing) = <<>> THEN {}
  ELSE SelectSeq(console, IsLocalListing)[1].arg
ToolLocalListed == result.local \ {"(none)"}
Directories == {e.name : e \in {d \in loc.entries : d.isDirectory}}
ListEnded == loc.op = "list" /\ (CliEnded \/ ToolEnded)
LocalListed == IF IsCli THEN CliLocalListed ELSE ToolLocalListed

\* C17.  A list whose localPath does not exist, or holds no directory, ends
\* without failure and with an empty local list; the local list is always
\* exactly the directory entries of localPath.
C17_LocalListing ==
  (ListEnded /\ loc.pathKind \in {"absent", "dir"}) =>
    /\ IF IsCli THEN exitCode = 0
                ELSE ~result.isError /\ "local" \in DOMAIN result
    /\ LocalListed = Directories
    /\ (loc.pathKind = "absent" \/ Directories = {}) => LocalListed = {}
    /\ ~IsCli /\ LocalListed = {} => result.local = {"(none)"}

\* The tool's list ended over a localPath that holds a file and no directory.
C17_Witness ==
  /\ ListEnded /\ ~IsCli /\ loc.pathKind = "dir"
  /\ loc.entries = {[name |-> "deno.json", isDirectory |-> FALSE]}
  /\ result.local = {"(none)"}

\* C18.  When the remote listing command of a list fails, the remote list is
\* empty, the operation still ends normally with the local list, and the
\* failure is neither a hard failure nor an entry of the remote list.
C18_RemoteListingFailure ==
  (ListEnded /\ loc.pathKind \in {"absent", "dir"}
     /\ \E k \in Ks("ls") : cmds[k].exit # 0) =>
    /\ LocalListed = Directories
    /\ IF IsCli
         THEN exitCode = 0 /\ SelectSeq(console, IsRemoteListing) = <<>>
         ELSE ~result.isError /\ result.remote = "(none)"


\* A new operation: the command new of the CLI, the tool new of the responder.
NewEnded == (CliEnded /\ Command = "new") \/ (ToolEnded /\ ToolCalled("new"))
NewName == IF IsCli THEN Arg(2) ELSE req.params.arguments.name
NewSaid(cliLevel, cliText, toolText) ==
  IF IsCli
    THEN /\ console # <<>> /\ Last(console).level = cliLevel
         /\ Last(console).text = cliText
         /\ exitCode = IF cliLevel = "error" THEN 1 ELSE 0
    ELSE result.text[1] = toolText

\* C19.  new on a name that exists under localPath ends with the already-exists
\* failure and writes nothing; new never runs a command, and its outcome is
\* settled by the name and the local path alone, whatever server, remotePath
\* and url are.
C19_ScaffoldIsLocal ==
  /\ (Command = "new" \/ ToolCalled("new")) => cmds = <<>>
  /\ NewEnded =>
       IF ~Truthy(NewName)
         THEN /\ writes = <<>>
              /\ NewSaid("error", "Usage: shsu new <function-name>",
                         "Error: function name is required.")
       ELSE IF loc.pathKind \in {"file", "dir"}
         THEN /\ writes = <<>>
              /\ NewSaid("error", "Function already exists: ",
                         "Error: Function already exists: ")
       ELSE /\ loc.pathKind = "absent"
            /\ writes = <<[call |-> "mkdirSync",
                           path |-> <<config.localPath, "/", NewName>>],
                          [call |-> "writeFileSync",
                           path |-> <<config.localPath, "/", NewName, "/", "index.ts">>]>>
            /\ NewSaid("success", "Created ", "Created ")

\* The tool refused an existing unit, with server, remotePath and url all unset.
C19_Witness ==
  /\ NewEnded /\ ~IsCli /\ loc.pathKind = "dir"
  /\ config.server = Unset /\ config.remotePath = Unset /\ config.url = Unset
  /\ result.text[1] = "Error: Function already exists: " /\ writes = <<>>


\* An invoke operation and what it was given.
Invoking == Command = "invoke" \/ ToolCalled("invoke")
InvokeEnded == (CliEnded /\ Command = "invoke") \/ (ToolEnded /\ ToolCalled("invoke"))
InvokeName == IF IsCli THEN Arg(2) ELSE req.params.arguments.name
InvokePayload ==
  IF IsCli THEN (IF Arg(3) = Unset THEN <<"{}">> ELSE <<Arg(3)>>)
  ELSE IF req.params.arguments.data = <<>> THEN <<"{}">> ELSE req.params.arguments.data

\* C20.  invoke without url ends with the missing-configuration failure and no
\* call; with url and a name it makes exactly one POST, to
\* url/functions/v1/<name>, with the payload it was given ({} by default), and
\* it never makes a second call, whatever the first did.
C20_InvokeOnce ==
  /\ Invoking => Len(cmds) <= 1
  /\ (InvokeEnded /\ ~Truthy(config.url)) =>
       /\ cmds = <<>>
       /\ IF IsCli THEN DiedWith("Missing required env var: SHSU_")
                   ELSE result.text = <<"Error: url must be configured for invoke.">>
  /\ (InvokeEnded /\ Truthy(config.url) /\ Truthy(InvokeName)) =>
       /\ Len(cmds) = 1
       /\ cmds[1].cmd.prog = "curl" /\ cmds[1].cmd.verb = "post"
       /\ cmds[1].cmd.dest = <<config.url, "/functions/v1/", InvokeName>>
       /\ cmds[1].cmd.src = InvokePayload


\* The texts of the configuration failures of the tools.
ConfigErrors ==
  {<<"Error: server and remotePath must be configured.">>,
   <<"Error: server must be configured.">>,
   <<"Error: url must be configured for invoke.">>}

\* C21.  With server and remotePath set and url absent, deploy, list, restart,
\* migrate, logs, new and config (env in the CLI) are never stopped by a
\* configuration failure: the remote operations get past their validation and
\* begin, and none of them ends with a missing-configuration message.
C21_UrlOnlyForInvoke ==
  (Truthy(config.server) /\ Truthy(config.remotePath) /\ ~Truthy(config.url)) =>
    /\ (IsCli /\ pc # "main" /\ Command \in {"deploy", "list", "restart", "migrate", "logs"})
         => loc.op = Command
    /\ (IsCli /\ Command \in {"deploy", "list", "restart", "migrate", "logs", "new", "env"})
         => ~DiedWith("Missing required env var: SHSU_")
    /\ \A name \in {"deploy", "list", "restart", "migrate"} :
         ToolCalled(name) => loc.op = name
    /\ \A name \in {"deploy", "list", "restart", "migrate", "new", "config"} :
         (Dealt /\ ToolCalled(name)) => result.text \notin ConfigErrors

\* The CLI's restart ran its command with url absent.
C21_Witness ==
  /\ CliEnded /\ Command = "restart" /\ ~Truthy(config.url)
  /\ Ks("restart") # {} /\ exitCode = 0

\* C22.  migrate over an absent migrations folder ends with the not-found
\* failure, and over a folder without any .sql file it ends as a success that
\* did nothing; in both cases no command is run.
C22_MigrateNothingToRun ==
  loc.op = "migrate" =>
    /\ loc.pathKind = "absent" =>
         /\ cmds = <<>>
         /\ IF IsCli THEN DiedWith("Migrations folder not found: ")
            ELSE /\ pc \in {"mcp_read", "exit"}
                 /\ result.text[1] = "Error: Migrations folder not found: "
    /\ (loc.pathKind = "dir" /\ SqlEntries = {}) =>
         /\ cmds = <<>>
         /\ IF IsCli THEN CliEnded /\ exitCode = 0
            ELSE /\ pc \in {"mcp_read", "exit"}
                 /\ result.text[1] = "No migration files found in " /\ ~result.isError

\* The CLI's migrate ended over a folder that holds one file, not a .sql file.
C22_Witness ==
  /\ CliEnded /\ loc.op = "migrate" /\ loc.pathKind = "dir"
  /\ loc.entries # {} /\ SqlEntries = {} /\ exitCode = 0


\* What the operation told its caller: the last success message of the CLI, the
\* head of the tool's answer.
CliSuccess(texts) ==
  /\ CliEnded /\ console # <<>>
  /\ Last(console).level = "success" /\ Last(console).text \in texts
ToolAnswered(heads) == Dealt /\ result.text # <<>> /\ result.text[1] \in heads

\* C23.  A restart whose command finds no container of the edge filter (docker
\* restart is then given no container and exits non-zero) ends in failure and
\* reports no restart, in the CLI's restart, the restart tool and the restart
\* step of deploy.
C23_RestartFailsWithoutContainer ==
  \A k \in Ks("restart") :
    cmds[k].exit # 0 =>
      /\ IsCli => /\ DiedWith("Command failed with code ")
                  /\ ~CliSuccess({"Restarted", "Deployed"})
      /\ ~IsCli => /\ Dealt
                   /\ ~ToolAnswered({"Restarted edge-runtime", "Deployed"})

\* C24.  When deploy reports success (Deployed or Synced in the CLI, an answer
\* that starts with Deployed from the tool), its sync command exited zero and,
\* unless the restart was suppressed, so did its restart command.
C24_DeploySuccessIsReal ==
  (loc.op = "deploy"
     /\ (CliSuccess({"Deployed", "Synced (no restart)"}) \/ ToolAnswered({"Deployed"}))) =>
    /\ Ks("sync") # {} /\ \A k \in Ks("sync") : cmds[k].exit = 0
    /\ ~RestartSuppressed =>
         Ks("restart") # {} /\ \A k \in Ks("restart") : cmds[k].exit = 0

\* C25.  In the CLI every streamed command (rsync, ssh restart, ssh psql, ssh
\* logs with or without a filter, curl) that exits non-zero ends the operation
\* as failed, with a non-zero exit code of the process.
Streamed == {"sync", "stage", "restart", "psql", "logs", "post"}
C25_CliStreamFailureIsFatal ==
  (CliEnded /\ \E k \in 1..Len(cmds) : cmds[k].cmd.verb \in Streamed /\ cmds[k].exit # 0) =>
    /\ exitCode # 0
    /\ console # <<>> /\ Last(console).level = "error"

\* C26.  A captured command that fails gives an empty result: in migrate a
\* container lookup that fails counts as not found, it is the last command, and
\* no migration file is run.
C26_FailedLookupIsNotFound ==
  loc.op = "migrate" =>
    \A k \in Ks("lookup") :
      cmds[k].exit # 0 =>
        /\ k = Len(cmds) /\ Ks("psql") = {}
        /\ ~Truthy(loc.dbContainer)
        /\ IF IsCli THEN DiedWith("Database container not found (filter: )")
           ELSE ToolAnswered({"Error: Database container not found (filter: )"})

\* C27.  migrate runs its commands in the order staging sync, container lookup,
\* migration files, and runs no migration file unless the staging sync of the
\* same operation exited zero.
C27_MigrateStepsInOrder ==
  loc.op = "migrate" =>
    /\ \A k \in 1..Len(cmds) :
         cmds[k].cmd.verb = (IF k = 1 THEN "stage" ELSE IF k = 2 THEN "lookup" ELSE "psql")
    /\ Ks("psql") # {} => cmds[1].exit = 0

\* C28.  No line ends the responder: after a line that is not JSON, a line that
\* is JSON but no object, or a tools/call whose handler throws, it has written at
\* most one line and is at the read of the next line; a line that is not JSON
\* writes nothing.
C28_NoLineEndsResponder ==
  [][(Reads /\ (\/ req'.json \in {"invalid", "null", "scalar"}
               \/ (req'.method = "tools/call" /\ ~req'.params.present)))
       => /\ pc' = "mcp_read"
          /\ Len(stdout') <= Len(stdout) + 1
          /\ req'.json = "invalid" => stdout' = stdout]_vars


\* The operation that ran and the commands it issued: kind (program, step,
\* --delete), target (destination, subject) and order; not the local source or
\* the payload.
OpRun == IF IsCli THEN Command ELSE IF req.params.present THEN req.params.name ELSE "none"
Shape(prog, verb, delete, dest, arg) ==
  [prog |-> prog, verb |-> verb, delete |-> delete, dest |-> dest, arg |-> arg]
Issued ==
  [k \in 1..Len(cmds) |->
     Shape(cmds[k].cmd.prog, cmds[k].cmd.verb, cmds[k].cmd.delete,
           cmds[k].cmd.dest, cmds[k].cmd.arg)]

\* Every command of the operation exited zero, and the operation is over.
AllSucceeded ==
  /\ \A k \in 1..Len(cmds) : cmds[k].exit = 0
  /\ \/ CliEnded /\ exitCode = 0
     \/ /\ Dealt /\ req.method = "tools/call"
        /\ \A k \in 1..Len(result.text) : result.text[k] # "Command failed: "

\* What each operation issues, as a function of the configuration, the
\* arguments and the local files: the same for the CLI and for the tool.
RestartShape == Shape("ssh", "restart", FALSE, <<config.server>>, config.edgeContainer)
SyncShape ==
  IF Truthy(UnitGiven)
    THEN Shape("rsync", "sync", FALSE,
               <<config.server, ":", config.remotePath, "/", UnitGiven, "/">>, UnitGiven)
    ELSE Shape("rsync", "sync", TRUE,
               <<config.server, ":", config.remotePath, "/">>, Unset)
PsqlShapes(container) ==
  [k \in 1..Len(loc.migrations) |->
     Shape("ssh", "psql", FALSE, <<config.server, container>>, loc.migrations[k])]
Expected ==
  CASE OpRun = "deploy" ->
         IF Truthy(UnitGiven) /\ loc.pathKind = "absent" THEN <<>>
         ELSE <<SyncShape>> \o (IF RestartSuppressed THEN <<>> ELSE <<RestartShape>>)
    [] OpRun = "restart" -> <<RestartShape>>
    [] OpRun = "list" ->
         <<Shape("ssh", "ls", FALSE, <<config.server>>, config.remotePath)>>
    [] OpRun = "invoke" ->
         IF ~Truthy(InvokeName) THEN <<>>
         ELSE <<Shape("curl", "post", FALSE,
                      <<config.url, "/functions/v1/", InvokeName>>, InvokeName)>>
    [] OpRun = "migrate" ->
         IF loc.pathKind # "dir" \/ SqlEntries = {} THEN <<>>
         ELSE <<Shape("rsync", "stage", TRUE,
                      <<config.server, ":", "/tmp/shsu-migrations", "/">>, Unset),
                Shape("ssh", "lookup", FALSE, <<config.server>>, config.dbContainer)>>
                \o (IF cmds[2].out = Unset THEN <<>> ELSE PsqlShapes(cmds[2].out))
    [] OTHER -> <<>>

\* C29.  With server, remotePath and url set and every command succeeding, the
\* CLI and the tool issue, for the same arguments, the same commands in the same
\* order for deploy, restart, migrate, list and invoke: both issue exactly what
\* the operation prescribes.
C29_FrontEndsIssueSameCommands ==
  (Truthy(config.server) /\ Truthy(config.remotePath) /\ Truthy(config.url)
     /\ OpRun \in {"deploy", "restart", "migrate", "list", "invoke"} /\ AllSucceeded)
    => Issued = Expected

\* The tool deployed the unit hello, sync and restart both succeeding.
C29_Witness ==
  /\ ~IsCli /\ OpRun = "deploy" /\ UnitGiven = "hello" /\ AllSucceeded
  /\ Truthy(config.server) /\ Truthy(config.remotePath) /\ Truthy(config.url)
  /\ Len(cmds) = 2

====
